---- MODULE Spec2Model ----
(***************************************************************************)
(* Model of the undo coordinator of bevy-undo2 (src/src/lib.rs).           *)
(*                                                                         *)
(* UndoPlugin::build registers the coordinator with the Bevy main          *)
(* schedule.  One tick (frame) runs the schedules in the order             *)
(*   First, PreUpdate, StateTransition, Update, PostUpdate                 *)
(* and the plugin puts                                                     *)
(*   - the update of every event buffer it adds (add_event) in First,      *)
(*   - (request_undo_system, undo_wait_event_system).chain(), gated by     *)
(*     in_state(UndoState::None), in PreUpdate,                            *)
(*   - the application of NextState<UndoState> (add_state) in              *)
(*     StateTransition, that is after PreUpdate and before Update,         *)
(*   - reset_state_system and reserve_reset_system, gated by               *)
(*     in_state(RequestUndo) / in_state(CommitReservations), in PostUpdate.*)
(* An event buffer is double buffered: an event lives for the rest of the  *)
(* tick that sent it and for the whole of the next tick.  Each EventReader *)
(* has its own cursor, and reader.iter().next() marks ONE event read.      *)
(*                                                                         *)
(* The application, the reservation contributors and the dispatch          *)
(* collaborator are outside lib.rs; they act in Update.                    *)
(***************************************************************************)
EXTENDS Integers, Sequences, FiniteSets

\* ---------------------------------------------------------------- bounds
\* Undo requests the application raises in one tick.
MaxUndoSend == 2
\* Commit requests of one source the contributors raise in one tick.
MaxReserveSend == 1
\* Largest cursor value explored (cursor + unfolded reservations).
MaxCounter == 5
\* Largest magnitude one reservation contributor records at once.
MaxMag == 3
\* Undo entries registered over a run.
MaxPush == 2
\* Largest lead of the application's undo requests over the RequestUndo
\* phases that is counted exactly (a larger lead is counted as this one).
MaxCredit == 2

VARIABLES
    pc,               \* the schedule of the tick that runs next
    state,            \* State<UndoState>: the phase the run conditions read
    next_state,       \* NextState<UndoState>: "Unset" or the phase requested
    posted,           \* Posted(bool)
    counter,          \* UndoCounter: the cursor
    reserve_counter,  \* ReserveCounter
    stack,            \* UndoStack: sequence of [no, inner]
    undo_events,      \* Events<RequestUndoEvent> and request_undo_system's undo_reader
    scheduler_events, \* Events<RequestCommitReservationsFromSchedulerEvent> and reserve_reader
    commit_events,    \* Events<RequestCommitReservationsEvent> and reserve_reader2
    wait_events,      \* Events<UndoWaitEvent> and undo_wait_event_system's er
    next_id,          \* payloads registered so far (the next payload's identity)
    popped,           \* history: the payloads pop_if_has_latest has returned
    scen,             \* observer: the tick of the worked scenario the run is in (0: none)
    decrements,       \* history: the cursor decrements of reset_state_system so far
    undo_credit       \* history: undo requests the application raised minus the
                      \* RequestUndo phases entered (counted up to MaxCredit)

vars == <<pc, state, next_state, posted, counter, reserve_counter, stack,
          undo_events, scheduler_events, commit_events, wait_events,
          next_id, popped, scen, decrements, undo_credit>>

\* ------------------------------------------------------------ UndoState
UndoState == {"None", "RequestUndo", "CommitReservations"}

\* ------------------------------------------------- events and their readers
\* An event buffer with the one reader this file has on it: a holds the
\* events sent in the previous tick, b the events sent in this tick, read
\* counts the events of a \o b the reader has consumed.
NoEvents == [a |-> <<>>, b |-> <<>>, read |-> 0]

\* EventWriter::send
Send(ev, e) == [ev EXCEPT !.b = Append(@, e)]

\* reader.iter().next().is_some()
HasUnread(ev) == ev.read < Len(ev.a) + Len(ev.b)

\* The event reader.iter().next() returns (HasUnread holds)
NextUnread(ev) == (ev.a \o ev.b)[ev.read + 1]

\* The reader after reader.iter().next(): one event more is read, if any was unread
ReadOne(ev) == IF HasUnread(ev) THEN [ev EXCEPT !.read = @ + 1] ELSE ev

\* Mutant: the update keeps the unread events of the older buffer.
UpdateEvents_KeepsUnread(ev) ==
    [a |-> SubSeq(ev.a, ev.read + 1, Len(ev.a)) \o ev.b, b |-> <<>>,
     read |-> IF ev.read > Len(ev.a) THEN ev.read - Len(ev.a) ELSE 0]

\* The per-tick update add_event schedules in First: the older buffer is
\* dropped, read or not
UpdateEvents(ev) ==
    [a |-> ev.b, b |-> <<>>,
     read |-> IF ev.read > Len(ev.a) THEN ev.read - Len(ev.a) ELSE 0]

\* The unread events the next update drops
DroppedUnread(ev) ==
    {i \in 1..Len(ev.a) : i > ev.read}

\* ---------------------------------------------------------------- counters
\* counter.rs is not part of the sources at hand; from the specification:
CounterAdd(c, r) == c + r
CounterDecrement(c) == c - 1
CounterReset == 0

\* --------------------------------------------------------------- UndoStack
\* Mutant: the last entry of the version is taken instead of the first.
Position_Last(s, c) ==
    IF \E i \in 1..Len(s) : s[i].no = c
    THEN CHOOSE i \in 1..Len(s) : s[i].no = c /\ \A j \in (i + 1)..Len(s) : s[j].no # c
    ELSE 0

\* self.0.iter().position(|undo| undo.no == **counter): 0 when there is none
Position(s, c) ==
    IF \E i \in 1..Len(s) : s[i].no = c
    THEN CHOOSE i \in 1..Len(s) : s[i].no = c /\ \A j \in 1..(i - 1) : s[j].no # c
    ELSE 0

\* self.0.remove(index)
Remove(s, i) == [k \in 1..(Len(s) - 1) |-> IF k < i THEN s[k] ELSE s[k + 1]]

\* UndoStack::push
push(s, e) == Append(s, e)

\* Mutant: the first entry is popped whatever its version is.
pop_if_has_latest_AnyVersion(s, c) ==
    IF s = <<>>
    THEN [found |-> FALSE, inner |-> 0, stack |-> s]
    ELSE [found |-> TRUE, inner |-> s[1].inner, stack |-> Remove(s, 1)]

\* Mutant: the matched entry is returned but not removed.
pop_if_has_latest_NoRemove(s, c) ==
    LET index == Position(s, c) IN
    IF index = 0
    THEN [found |-> FALSE, inner |-> 0, stack |-> s]
    ELSE [found |-> TRUE, inner |-> s[index].inner, stack |-> s]

\* UndoStack::pop_if_has_latest: [found, inner, stack]
pop_if_has_latest(s, c) ==
    LET index == Position(s, c) IN
    IF index = 0
    THEN [found |-> FALSE, inner |-> 0, stack |-> s]
    ELSE [found |-> TRUE, inner |-> s[index].inner, stack |-> Remove(s, index)]

Stamps(s) == [i \in 1..Len(s) |-> s[i].no]

\* --------------------------------------------------------------------- Init
Init ==
    /\ pc = "First"
    /\ state = "None"
    /\ next_state = "Unset"
    /\ posted = FALSE
    /\ counter = 0
    /\ reserve_counter = 0
    /\ stack = <<>>
    /\ undo_events = NoEvents
    /\ scheduler_events = NoEvents
    /\ commit_events = NoEvents
    /\ wait_events = NoEvents
    /\ next_id = 0
    /\ popped = {}
    /\ scen = 0
    /\ decrements = 0
    /\ undo_credit = 0

\* ------------------------------------------------- the scenario observer
\* The worked scenario: the cursor is 2, the entries stamped 1 and 2 are in
\* the stack, nothing was popped yet, and one undo request waits for tick A.
ScenarioStart ==
    /\ counter = 2 /\ reserve_counter = 0
    /\ Stamps(stack) = <<1, 2>> /\ next_id = 2 /\ popped = {}
    /\ state = "None" /\ next_state = "Unset"
    /\ Len(undo_events.b) = 1 /\ undo_events.read <= Len(undo_events.a)
    /\ scheduler_events.b = <<>> /\ commit_events.b = <<>>

AppSent(ev) == {i \in 1..Len(ev.b) : ev.b[i].origin = "app"}

\* What the scenario has the environment do during tick A (a reservation
\* commit of magnitude 3 and an undo request, both for tick B), and during
\* ticks B and C (nothing).
ScenarioInputs(k) ==
    /\ next_id = 2
    /\ IF k = 1
       THEN /\ Cardinality(AppSent(undo_events)) = 1
            /\ Len(scheduler_events.b) + Len(commit_events.b) = 1
            /\ reserve_counter = 3
       ELSE /\ AppSent(undo_events) = {}
            /\ scheduler_events.b = <<>> /\ commit_events.b = <<>>

\* The observer moves at the tick boundary: 1, 2, 3 while the run is in tick
\* A, B, C of the scenario.
ScenarioStep ==
    IF scen \in {1, 2} /\ ScenarioInputs(scen) THEN scen + 1
    ELSE IF ScenarioStart THEN 1
    ELSE 0

\* ------------------------------------------------------- First: event update
event_update_system ==
    /\ pc = "First"
    /\ pc' = "PreUpdate"
    /\ undo_events' = UpdateEvents(undo_events)
    /\ scheduler_events' = UpdateEvents(scheduler_events)
    /\ commit_events' = UpdateEvents(commit_events)
    /\ wait_events' = UpdateEvents(wait_events)
    /\ scen' = ScenarioStep
    /\ UNCHANGED <<state, next_state, posted, counter, reserve_counter, stack,
                   next_id, popped, decrements, undo_credit>>

\* ------------------------------------------------------------- PreUpdate
\* The run condition in_state(UndoState::None) of the chained pair.
PreUpdateGate == state = "None"

\* Mutant: an undo request that is accepted does not clear Posted.
request_undo_system_KeepsPosted ==
    /\ pc = "PreUpdate"
    /\ PreUpdateGate
    /\ pc' = "PreUpdateWait"
    /\ LET r1 == HasUnread(scheduler_events)
           r2 == ~r1 /\ HasUnread(commit_events)
       IN
       /\ scheduler_events' = ReadOne(scheduler_events)
       /\ commit_events' = IF r1 THEN commit_events ELSE ReadOne(commit_events)
       /\ undo_events' = ReadOne(undo_events)
       /\ posted' = posted
       /\ IF r1 \/ r2
          THEN /\ next_state' = "CommitReservations"
               /\ wait_events' = IF HasUnread(undo_events)
                                 THEN Send(wait_events, "wait")
                                 ELSE wait_events
          ELSE /\ wait_events' = wait_events
               /\ next_state' = IF HasUnread(undo_events) THEN "RequestUndo" ELSE next_state
    /\ UNCHANGED <<state, counter, reserve_counter, stack, next_id, popped, scen, decrements, undo_credit>>

\* Mutant: with no reservation commit pending, RequestUndo is entered whether
\* or not an undo request is pending.
request_undo_system_UndoUnasked ==
    /\ pc = "PreUpdate"
    /\ PreUpdateGate
    /\ pc' = "PreUpdateWait"
    /\ LET r1 == HasUnread(scheduler_events)
           r2 == ~r1 /\ HasUnread(commit_events)
       IN
       /\ scheduler_events' = ReadOne(scheduler_events)
       /\ commit_events' = IF r1 THEN commit_events ELSE ReadOne(commit_events)
       /\ undo_events' = ReadOne(undo_events)
       /\ IF r1 \/ r2
          THEN /\ next_state' = "CommitReservations"
               /\ wait_events' = IF HasUnread(undo_events)
                                 THEN Send(wait_events, "wait")
                                 ELSE wait_events
               /\ posted' = posted
          ELSE /\ wait_events' = wait_events
               /\ posted' = FALSE
               /\ next_state' = "RequestUndo"
    /\ UNCHANGED <<state, counter, reserve_counter, stack, next_id, popped, scen, decrements, undo_credit>>

\* Mutant: every pending undo request is read and deferred with a wait of its own.
request_undo_system_WaitPerRequest ==
    /\ pc = "PreUpdate"
    /\ PreUpdateGate
    /\ pc' = "PreUpdateWait"
    /\ LET r1 == HasUnread(scheduler_events)
           r2 == ~r1 /\ HasUnread(commit_events)
           unread == Len(undo_events.a) + Len(undo_events.b) - undo_events.read
       IN
       /\ scheduler_events' = ReadOne(scheduler_events)
       /\ commit_events' = IF r1 THEN commit_events ELSE ReadOne(commit_events)
       /\ IF r1 \/ r2
          THEN /\ next_state' = "CommitReservations"
               /\ undo_events' = [undo_events EXCEPT !.read = @ + unread]
               /\ wait_events' = [wait_events EXCEPT
                                    !.b = @ \o [i \in 1..unread |-> "wait"]]
               /\ posted' = posted
          ELSE /\ undo_events' = ReadOne(undo_events)
               /\ wait_events' = wait_events
               /\ IF HasUnread(undo_events)
                  THEN posted' = FALSE /\ next_state' = "RequestUndo"
                  ELSE posted' = posted /\ next_state' = next_state
    /\ UNCHANGED <<state, counter, reserve_counter, stack, next_id, popped, scen, decrements, undo_credit>>

\* Mutant: the undo request is looked at before the reservation commits.
request_undo_system_UndoFirst ==
    /\ pc = "PreUpdate"
    /\ PreUpdateGate
    /\ pc' = "PreUpdateWait"
    /\ undo_events' = ReadOne(undo_events)
    /\ wait_events' = wait_events
    /\ IF HasUnread(undo_events)
       THEN /\ posted' = FALSE
            /\ next_state' = "RequestUndo"
            /\ UNCHANGED <<scheduler_events, commit_events>>
       ELSE /\ posted' = posted
            /\ scheduler_events' = ReadOne(scheduler_events)
            /\ commit_events' = IF HasUnread(scheduler_events)
                                THEN commit_events ELSE ReadOne(commit_events)
            /\ next_state' = IF HasUnread(scheduler_events) \/ HasUnread(commit_events)
                             THEN "CommitReservations" ELSE next_state
    /\ UNCHANGED <<state, counter, reserve_counter, stack, next_id, popped, scen, decrements, undo_credit>>

request_undo_system ==
    /\ pc = "PreUpdate"
    /\ PreUpdateGate
    /\ pc' = "PreUpdateWait"
    /\ LET r1 == HasUnread(scheduler_events)
           r2 == ~r1 /\ HasUnread(commit_events)
       IN
       /\ scheduler_events' = ReadOne(scheduler_events)
       /\ commit_events' = IF r1 THEN commit_events ELSE ReadOne(commit_events)
       /\ IF r1 \/ r2
          THEN /\ next_state' = "CommitReservations"
               /\ undo_events' = ReadOne(undo_events)
               /\ wait_events' = IF HasUnread(undo_events)
                                 THEN Send(wait_events, "wait")
                                 ELSE wait_events
               /\ posted' = posted
          ELSE /\ undo_events' = ReadOne(undo_events)
               /\ wait_events' = wait_events
               /\ IF HasUnread(undo_events)
                  THEN posted' = FALSE /\ next_state' = "RequestUndo"
                  ELSE posted' = posted /\ next_state' = next_state
    /\ UNCHANGED <<state, counter, reserve_counter, stack, next_id, popped, scen, decrements, undo_credit>>

\* Mutant: the conversion does not clear Posted.
undo_wait_event_system_KeepsPosted ==
    /\ pc = "PreUpdateWait"
    /\ pc' = "StateTransition"
    /\ wait_events' = ReadOne(wait_events)
    /\ undo_events' = IF HasUnread(wait_events)
                      THEN Send(undo_events, [origin |-> "wait", phase |-> state])
                      ELSE undo_events
    /\ UNCHANGED <<state, next_state, posted, counter, reserve_counter, stack,
                   scheduler_events, commit_events, next_id, popped, scen, decrements, undo_credit>>

undo_wait_event_system ==
    /\ pc = "PreUpdateWait"
    /\ pc' = "StateTransition"
    /\ wait_events' = ReadOne(wait_events)
    /\ IF HasUnread(wait_events)
       THEN /\ posted' = FALSE
            /\ undo_events' = Send(undo_events, [origin |-> "wait", phase |-> state])
       ELSE /\ posted' = posted
            /\ undo_events' = undo_events
    /\ UNCHANGED <<state, next_state, counter, reserve_counter, stack,
                   scheduler_events, commit_events, next_id, popped, scen, decrements, undo_credit>>

\* Neither system of the pair runs while the phase is not None.
PreUpdateSkipped ==
    /\ pc = "PreUpdate"
    /\ ~PreUpdateGate
    /\ pc' = "StateTransition"
    /\ UNCHANGED <<state, next_state, posted, counter, reserve_counter, stack,
                   undo_events, scheduler_events, commit_events, wait_events,
                   next_id, popped, scen, decrements, undo_credit>>

\* -------------------------------------------------------- StateTransition
apply_state_transition ==
    /\ pc = "StateTransition"
    /\ pc' = "Update"
    /\ state' = IF next_state = "Unset" THEN state ELSE next_state
    /\ next_state' = "Unset"
    /\ undo_credit' = IF next_state = "RequestUndo" THEN undo_credit - 1 ELSE undo_credit
    /\ UNCHANGED <<posted, counter, reserve_counter, stack,
                   undo_events, scheduler_events, commit_events, wait_events,
                   next_id, popped, scen, decrements>>

\* ------------------------------------------------------------------ Update
\* The application asks for an undo.
RequestUndo ==
    /\ pc = "Update"
    /\ Len(undo_events.b) < MaxUndoSend
    /\ undo_events' = Send(undo_events, [origin |-> "app", phase |-> state])
    /\ undo_credit' = IF undo_credit < MaxCredit THEN undo_credit + 1 ELSE undo_credit
    /\ UNCHANGED <<pc, state, next_state, posted, counter, reserve_counter, stack,
                   scheduler_events, commit_events, wait_events,
                   next_id, popped, scen, decrements>>

\* A reservation contributor records a magnitude and asks for the commit,
\* through the scheduler-origin signal ...
ReserveFromScheduler ==
    /\ pc = "Update"
    /\ Len(scheduler_events.b) < MaxReserveSend
    /\ \E m \in 1..MaxMag :
        /\ counter + reserve_counter + m <= MaxCounter
        /\ reserve_counter' = reserve_counter + m
    /\ scheduler_events' = Send(scheduler_events, "commit")
    /\ UNCHANGED <<pc, state, next_state, posted, counter, stack,
                   undo_events, commit_events, wait_events, next_id, popped, scen, decrements, undo_credit>>

\* ... or through the direct one.
ReserveDirect ==
    /\ pc = "Update"
    /\ Len(commit_events.b) < MaxReserveSend
    /\ \E m \in 1..MaxMag :
        /\ counter + reserve_counter + m <= MaxCounter
        /\ reserve_counter' = reserve_counter + m
    /\ commit_events' = Send(commit_events, "commit")
    /\ UNCHANGED <<pc, state, next_state, posted, counter, stack,
                   undo_events, scheduler_events, wait_events, next_id, popped, scen, decrements, undo_credit>>

\* An undoable operation is registered: the cursor advances and the entry is
\* pushed with the cursor value as its version.
Register ==
    /\ pc = "Update"
    /\ next_id < MaxPush
    /\ counter + reserve_counter < MaxCounter
    /\ counter' = counter + 1
    /\ stack' = push(stack, [no |-> counter + 1, inner |-> next_id])
    /\ next_id' = next_id + 1
    /\ UNCHANGED <<pc, state, next_state, posted, reserve_counter,
                   undo_events, scheduler_events, commit_events, wait_events, popped, scen, decrements, undo_credit>>

\* The dispatch collaborator, gated by in_state(RequestUndo): pops the entry
\* of the cursor, and sets Posted when there was one.
Dispatch ==
    /\ pc = "Update"
    /\ state = "RequestUndo"
    /\ pc' = "PostUpdate"
    /\ LET r == pop_if_has_latest(stack, counter) IN
       /\ stack' = r.stack
       /\ posted' = (posted \/ r.found)
       /\ popped' = IF r.found THEN popped \cup {r.inner} ELSE popped
    /\ UNCHANGED <<state, next_state, counter, reserve_counter,
                   undo_events, scheduler_events, commit_events, wait_events, next_id, scen, decrements, undo_credit>>

DispatchSkipped ==
    /\ pc = "Update"
    /\ state # "RequestUndo"
    /\ pc' = "PostUpdate"
    /\ UNCHANGED <<state, next_state, posted, counter, reserve_counter, stack,
                   undo_events, scheduler_events, commit_events, wait_events,
                   next_id, popped, scen, decrements, undo_credit>>

\* -------------------------------------------------------------- PostUpdate
\* Mutant: the cursor is lowered whether or not an entry was dispatched.
reset_state_system_AlwaysDecrement ==
    /\ pc = "PostUpdate"
    /\ state = "RequestUndo"
    /\ pc' = "First"
    /\ counter' = CounterDecrement(counter)
    /\ next_state' = "None"
    /\ decrements' = decrements + 1
    /\ UNCHANGED <<state, posted, reserve_counter, stack,
                   undo_events, scheduler_events, commit_events, wait_events,
                   next_id, popped, scen, undo_credit>>

\* Mutant: the finalizer clears Posted after reading it.
reset_state_system_ClearsPosted ==
    /\ pc = "PostUpdate"
    /\ state = "RequestUndo"
    /\ pc' = "First"
    /\ counter' = IF posted THEN CounterDecrement(counter) ELSE counter
    /\ posted' = FALSE
    /\ next_state' = "None"
    /\ decrements' = IF posted THEN decrements + 1 ELSE decrements
    /\ UNCHANGED <<state, reserve_counter, stack,
                   undo_events, scheduler_events, commit_events, wait_events,
                   next_id, popped, scen, undo_credit>>

reset_state_system ==
    /\ pc = "PostUpdate"
    /\ state = "RequestUndo"
    /\ pc' = "First"
    /\ counter' = IF posted THEN CounterDecrement(counter) ELSE counter
    /\ next_state' = "None"
    /\ decrements' = IF posted THEN decrements + 1 ELSE decrements
    /\ UNCHANGED <<state, posted, reserve_counter, stack,
                   undo_events, scheduler_events, commit_events, wait_events,
                   next_id, popped, scen, undo_credit>>

\* Mutant: the fold runs in PostUpdate whatever the phase is.
reserve_reset_system_Ungated ==
    /\ pc = "PostUpdate"
    /\ pc' = "First"
    /\ counter' = CounterAdd(counter, reserve_counter)
    /\ reserve_counter' = CounterReset
    /\ next_state' = "None"
    /\ UNCHANGED <<state, posted, stack,
                   undo_events, scheduler_events, commit_events, wait_events,
                   next_id, popped, scen, decrements, undo_credit>>

\* Mutant: the fold also clears Posted.
reserve_reset_system_ClearsPosted ==
    /\ pc = "PostUpdate"
    /\ state = "CommitReservations"
    /\ pc' = "First"
    /\ counter' = CounterAdd(counter, reserve_counter)
    /\ reserve_counter' = CounterReset
    /\ posted' = FALSE
    /\ next_state' = "None"
    /\ UNCHANGED <<state, stack,
                   undo_events, scheduler_events, commit_events, wait_events,
                   next_id, popped, scen, decrements, undo_credit>>

\* Mutant: the reservation counter is folded but not reset.
reserve_reset_system_NoReset ==
    /\ pc = "PostUpdate"
    /\ state = "CommitReservations"
    /\ pc' = "First"
    /\ counter' = CounterAdd(counter, reserve_counter)
    /\ next_state' = "None"
    /\ UNCHANGED <<state, posted, reserve_counter, stack,
                   undo_events, scheduler_events, commit_events, wait_events,
                   next_id, popped, scen, decrements, undo_credit>>

reserve_reset_system ==
    /\ pc = "PostUpdate"
    /\ state = "CommitReservations"
    /\ pc' = "First"
    /\ counter' = CounterAdd(counter, reserve_counter)
    /\ reserve_counter' = CounterReset
    /\ next_state' = "None"
    /\ UNCHANGED <<state, posted, stack,
                   undo_events, scheduler_events, commit_events, wait_events,
                   next_id, popped, scen, decrements, undo_credit>>

PostUpdateSkipped ==
    /\ pc = "PostUpdate"
    /\ state = "None"
    /\ pc' = "First"
    /\ UNCHANGED <<state, next_state, posted, counter, reserve_counter, stack,
                   undo_events, scheduler_events, commit_events, wait_events,
                   next_id, popped, scen, decrements, undo_credit>>

\* -------------------------------------------------------------------- Next
Next ==
    \/ event_update_system
    \/ request_undo_system
    \/ undo_wait_event_system
    \/ PreUpdateSkipped
    \/ apply_state_transition
    \/ RequestUndo
    \/ ReserveFromScheduler
    \/ ReserveDirect
    \/ Register
    \/ Dispatch
    \/ DispatchSkipped
    \/ reset_state_system
    \/ reserve_reset_system
    \/ PostUpdateSkipped

Spec == Init /\ [][Next]_vars

\* ------------------------------------------- pop_if_has_latest on any stack
\* A second specification for the stack's pop as a function of any stack and
\* any cursor, entries sharing a version included.
PopMaxLen == 3
PopMaxVersion == 2

\* every stack of at most PopMaxLen entries; the payload names the arrival position
PopStacks ==
    UNION { { [i \in 1..n |-> [no |-> f[i], inner |-> i]] :
                f \in [1..n -> 0..PopMaxVersion] } : n \in 0..PopMaxLen }

PopInit ==
    /\ pc = "Update"
    /\ state = "RequestUndo"
    /\ next_state = "Unset"
    /\ posted = FALSE
    /\ counter \in 0..PopMaxVersion
    /\ reserve_counter = 0
    /\ stack \in PopStacks
    /\ undo_events = NoEvents
    /\ scheduler_events = NoEvents
    /\ commit_events = NoEvents
    /\ wait_events = NoEvents
    /\ next_id = Len(stack) + 1
    /\ popped = {}
    /\ scen = 0
    /\ decrements = 0
    /\ undo_credit = 0

\* one call of stack.pop_if_has_latest(&counter); the returned payload is
\* recorded in popped, Some/None in posted
PopCall ==
    /\ pc = "Update"
    /\ pc' = "PostUpdate"
    /\ LET r == pop_if_has_latest(stack, counter) IN
       /\ stack' = r.stack
       /\ posted' = r.found
       /\ popped' = IF r.found THEN {r.inner} ELSE {}
    /\ UNCHANGED <<state, next_state, counter, reserve_counter,
                   undo_events, scheduler_events, commit_events, wait_events,
                   next_id, scen, decrements, undo_credit>>

PopNext ==
    \/ PopCall

PopSpec == PopInit /\ [][PopNext]_vars

\* =================================================================== claims

\* C1 (reservation priority): in a tick whose phase is None at request
\* evaluation, with an undo request and a reservation commit (of either
\* source) both unread, the evaluation requests CommitReservations, never
\* RequestUndo, and sends one UndoWaitEvent; the tick that sent a wait enters
\* CommitReservations; and an undo request re-issued from a wait is never the
\* one that opens RequestUndo in the tick that sent it (the tick of the fold).
C1_ReservationPriority ==
    [][ /\ ( /\ pc = "PreUpdate" /\ state = "None"
             /\ HasUnread(undo_events)
             /\ (HasUnread(scheduler_events) \/ HasUnread(commit_events)) )
           => /\ next_state' = "CommitReservations"
              /\ wait_events'.b = Append(wait_events.b, "wait")
        /\ (pc = "StateTransition" /\ wait_events.b # <<>>)
           => state' = "CommitReservations"
        /\ ( /\ pc = "PreUpdate" /\ next_state' = "RequestUndo"
             /\ HasUnread(undo_events)
             /\ NextUnread(undo_events).origin = "wait" )
           => undo_events.read < Len(undo_events.a)
      ]_vars

\* C1's case: request evaluation has just met both signals and deferred the undo.
C1_Witness ==
    /\ pc = "PreUpdateWait"
    /\ next_state = "CommitReservations"
    /\ wait_events.b = <<"wait">>
    /\ HasUnread(wait_events)

\* C2 (no silent drop), as the claim has it: an undo request the application
\* raises while the phase is CommitReservations is re-issued, so the event
\* buffer never drops such a request before request evaluation has read it.
C2_NoSilentDrop ==
    pc = "First" =>
        \A i \in DroppedUnread(undo_events) :
            ~(undo_events.a[i].origin = "app"
              /\ undo_events.a[i].phase = "CommitReservations")

\* C3 (deferred undo delivered on the next tick), as the claim has it: in the
\* tick after the one that sent a wait, with no reservation commit unread,
\* the early phase requests RequestUndo.
C3_DeferredUndoNextTick ==
    [][ ( /\ pc = "PreUpdate"
          /\ wait_events.a # <<>>
          /\ ~HasUnread(scheduler_events) /\ ~HasUnread(commit_events) )
        => next_state' = "RequestUndo"
      ]_vars

\* C4 (fold correctness): the CommitReservations finalizer turns cursor c and
\* reservation counter r into cursor c + r and reservation counter 0, and
\* requests the phase None.
C4_FoldCorrectness ==
    [][ (pc = "PostUpdate" /\ state = "CommitReservations")
        => /\ counter' = counter + reserve_counter
           /\ reserve_counter' = 0
           /\ next_state' = "None"
      ]_vars

\* C4's case: a fold has just run on reservations that contributors of both
\* sources asked to commit, and the cursor holds nothing but folded magnitude.
C4_Witness ==
    /\ pc = "First" /\ state = "CommitReservations" /\ next_state = "None"
    /\ Len(scheduler_events.a) = 1 /\ Len(commit_events.a) = 1
    /\ next_id = 0 /\ counter >= 2 /\ reserve_counter = 0

\* C5 (cursor decrement exactness): the RequestUndo finalizer lowers the
\* cursor by exactly 1 when Posted is true and leaves it alone when Posted is
\* false; either way it requests the phase None, which the next state
\* transition applies.
C5_DecrementExactness ==
    [][ /\ (pc = "PostUpdate" /\ state = "RequestUndo")
           => /\ counter' = IF posted THEN counter - 1 ELSE counter
              /\ next_state' = "None"
        /\ (pc = "StateTransition" /\ state = "RequestUndo")
           => state' = "None"
      ]_vars

\* C5's case: the finalizer has just lowered the cursor from 1 to 0 after a pop.
C5_Witness ==
    /\ pc = "First" /\ state = "RequestUndo" /\ next_state = "None"
    /\ posted /\ popped # {} /\ counter = 0

\* C6 (Idle return), as the claim has it: the phase is None whenever a tick's
\* request evaluation is gated.
C6_IdleReturn ==
    pc = "PreUpdate" => state = "None"

\* C7 (no double dispatch): a dispatch that pops returns a payload that was
\* never returned before, and right after it a second pop_if_has_latest with
\* the same cursor finds nothing.
C7_NoDoubleDispatch ==
    [][ ( /\ pc = "Update" /\ pc' = "PostUpdate" /\ state = "RequestUndo"
          /\ pop_if_has_latest(stack, counter).found )
        => /\ popped' # popped
           /\ ~pop_if_has_latest(stack', counter').found
      ]_vars

\* C7's case: the dispatch has just popped an entry and left another in the stack.
C7_Witness ==
    /\ pc = "PostUpdate" /\ state = "RequestUndo"
    /\ posted /\ popped # {} /\ stack # <<>>

C9_Scenario ==
    (pc = "First" /\ scen \in 1..3 /\ ScenarioInputs(scen)) =>
        CASE scen = 1 -> /\ state = "RequestUndo"
                         /\ counter = 1 /\ Stamps(stack) = <<1>> /\ popped = {1}
          [] scen = 2 -> /\ state = "CommitReservations"
                         /\ counter = 4 /\ reserve_counter = 0
          [] scen = 3 -> /\ state = "RequestUndo" /\ ~posted
                         /\ counter = 4 /\ Stamps(stack) = <<1>> /\ popped = {1}

\* C10 as the claim has it: the RequestUndo finalizer leaves Posted false.
C10_PostedClearedAtFinalize ==
    [][ (pc = "PostUpdate" /\ state = "RequestUndo") => posted' = FALSE ]_vars

\* C10, amended: the RequestUndo finalizer reads Posted and leaves it as it
\* is; Posted changes only when request evaluation opens RequestUndo or a wait
\* is converted (to false) and when the dispatch pops (to true).  So Posted is
\* still true in the None states that follow a cycle that popped.
C10_PostedKeptAtFinalize ==
    [][ /\ (pc = "PostUpdate" /\ state = "RequestUndo") => posted' = posted
        /\ posted' # posted =>
            \/ pc = "PreUpdate" /\ next_state' = "RequestUndo" /\ ~posted'
            \/ pc = "PreUpdateWait" /\ ~posted'
            \/ pc = "Update" /\ state = "RequestUndo" /\ posted'
      ]_vars

\* C10's case: the phase is None again after an undo cycle that popped, and
\* Posted is still true.
C10_Witness ==
    /\ pc = "PreUpdate" /\ state = "None" /\ posted /\ popped # {}

\* C11 (a stale Posted never causes a decrement): Posted is false when
\* RequestUndo is entered; the cursor goes down only in the RequestUndo
\* finalizer, by one, and every such decrement is counted; and the decrements
\* never outnumber the payloads popped.
C11_NoStaleDecrement ==
    [][ /\ (state' = "RequestUndo" /\ state # "RequestUndo") => ~posted'
        /\ counter' < counter
           => /\ pc = "PostUpdate" /\ state = "RequestUndo"
              /\ counter' = counter - 1
              /\ decrements' = decrements + 1
        /\ decrements' <= Cardinality(popped')
      ]_vars

\* C11's case: after a cycle that popped and lowered the cursor, a second
\* RequestUndo cycle has ended without a pop and without a decrement.
C11_Witness ==
    /\ pc = "First" /\ state = "RequestUndo" /\ next_state = "None"
    /\ ~posted /\ popped # {} /\ decrements = Cardinality(popped)

\* C12 (reservations folded before any lookup), as the claim has it, for the
\* lookups of ticks in which no contributor has acted yet: when the dispatch
\* is about to look the cursor up, the reservation counter is 0.
C12_FoldedBeforeLookup ==
    ( /\ pc = "Update" /\ state = "RequestUndo"
      /\ scheduler_events.b = <<>> /\ commit_events.b = <<>> )
    => reserve_counter = 0

\* C13 (all pending signals consumed by one evaluation), as the claim has it:
\* request evaluation leaves no undo request and no reservation commit unread.
C13_AllDrained ==
    [][ (pc = "PreUpdate" /\ state = "None")
        => /\ ~HasUnread(undo_events')
           /\ ~HasUnread(scheduler_events')
           /\ ~HasUnread(commit_events')
      ]_vars

\* C13, amended: one evaluation reads at most one signal of each kind (the
\* direct commit only when no scheduler-origin commit is pending) and enters
\* exactly one phase when any signal is pending; all it sees was sent in the
\* tick before and is new to it, and what it leaves unread is dropped by the
\* next event update, so no leftover triggers a phase in a later tick.
C13_OneReadPerKind ==
    [][ /\ (pc = "PreUpdate" /\ state = "None")
           => /\ undo_events.b = <<>> /\ undo_events.read = 0
              /\ scheduler_events.b = <<>> /\ scheduler_events.read = 0
              /\ commit_events.b = <<>> /\ commit_events.read = 0
              /\ undo_events'.read = IF undo_events.a # <<>> THEN 1 ELSE 0
              /\ scheduler_events'.read = IF scheduler_events.a # <<>> THEN 1 ELSE 0
              /\ commit_events'.read =
                    IF scheduler_events.a = <<>> /\ commit_events.a # <<>> THEN 1 ELSE 0
              /\ next_state = "Unset"
              /\ next_state' =
                    IF scheduler_events.a # <<>> \/ commit_events.a # <<>>
                    THEN "CommitReservations"
                    ELSE IF undo_events.a # <<>> THEN "RequestUndo" ELSE "Unset"
        /\ pc = "First"
           => /\ undo_events'.a = undo_events.b
              /\ scheduler_events'.a = scheduler_events.b
              /\ commit_events'.a = commit_events.b
      ]_vars

\* C13's case: two undo requests and a commit from each source were pending
\* at one evaluation, which read one undo request and the scheduler-origin
\* commit and left the rest unread.
C13_Witness ==
    /\ pc = "PreUpdateWait" /\ state = "None"
    /\ next_state = "CommitReservations"
    /\ Len(undo_events.a) = 2 /\ undo_events.read = 1
    /\ scheduler_events.read = 1
    /\ HasUnread(commit_events)

\* C14 (no duplication of undo requests): the RequestUndo phases entered
\* never outnumber the undo requests the application raised.
C14_NoDuplication ==
    undo_credit >= 0

\* C14's case: RequestUndo is entered and every request raised so far is used up.
C14_Witness ==
    /\ pc = "Update" /\ state = "RequestUndo"
    /\ undo_credit = 0 /\ popped # {}

\* C15 (at most one deferred undo request in flight): at most one
\* UndoWaitEvent is unread.
C15_AtMostOneWait ==
    Len(wait_events.a) + Len(wait_events.b) - wait_events.read <= 1

\* C15's case: two undo requests met a reservation commit, and one wait is pending.
C15_Witness ==
    /\ pc = "PreUpdateWait"
    /\ Len(undo_events.a) = 2
    /\ HasUnread(wait_events)

\* C16 (finalizers exclusive, at most once per tick, never in a None tick):
\* the one PostUpdate step of a tick changes nothing in phase None, does not
\* fold in phase RequestUndo, does not decrement in phase CommitReservations;
\* outside PostUpdate no finalizer acts.
C16_FinalizersExclusive ==
    [][ /\ pc = "PostUpdate"
           => /\ pc' = "First"
              /\ state = "None"
                 => UNCHANGED <<counter, reserve_counter, next_state, decrements>>
              /\ state = "RequestUndo"
                 => /\ reserve_counter' = reserve_counter
                    /\ counter' \in {counter, counter - 1}
              /\ state = "CommitReservations"
                 => /\ decrements' = decrements
                    /\ counter' = counter + reserve_counter
        /\ pc # "PostUpdate"
           => /\ decrements' = decrements
              /\ reserve_counter' >= reserve_counter
              /\ next_state' = "None" => next_state = "None"
      ]_vars

\* C16's case: a fold has just run, in a run whose earlier tick ran the decrement.
C16_Witness ==
    /\ pc = "First" /\ state = "CommitReservations" /\ next_state = "None"
    /\ decrements > 0

\* C17 (pop removes the first match only): a call of pop_if_has_latest
\* returns nothing and leaves the stack alone when no entry has the cursor's
\* version; otherwise it returns the payload of the first such entry in
\* arrival order and leaves the entries before and after it, in their order.
C17_PopFirstMatch ==
    [][ pc = "Update"
        => LET M == {i \in 1..Len(stack) : stack[i].no = counter} IN
           IF M = {}
           THEN stack' = stack /\ popped' = {} /\ ~posted'
           ELSE LET i == CHOOSE k \in M : \A j \in M : k <= j IN
                /\ posted'
                /\ popped' = {stack[i].inner}
                /\ Len(stack') = Len(stack) - 1
                /\ stack' = SubSeq(stack, 1, i - 1) \o SubSeq(stack, i + 1, Len(stack))
      ]_vars

\* C17's case: the first of two entries of the cursor's version was popped,
\* an entry of another version is kept, and the second is still in the stack.
C17_Witness ==
    /\ pc = "PostUpdate" /\ posted
    /\ Len(stack) = PopMaxLen - 1
    /\ \E i \in 1..Len(stack) : stack[i].no = counter
    /\ \E i \in 1..Len(stack) : stack[i].no # counter
    /\ \A i \in 1..Len(stack) : popped # {stack[i].inner}

\* C18 (missed lookup is a no-op): a dispatch that finds no entry stamped
\* with the cursor returns nothing and leaves the stack alone, with Posted
\* false; the finalizer of that cycle leaves the cursor and the stack alone
\* and requests None, which the next state transition applies.
C18_MissedLookupNoOp ==
    [][ /\ ( /\ pc = "Update" /\ pc' = "PostUpdate" /\ state = "RequestUndo"
             /\ \A i \in 1..Len(stack) : stack[i].no # counter )
           => /\ stack' = stack /\ popped' = popped /\ ~posted'
        /\ (pc = "PostUpdate" /\ state = "RequestUndo" /\ ~posted)
           => /\ counter' = counter /\ stack' = stack /\ ~posted'
              /\ next_state' = "None"
        /\ (pc = "StateTransition" /\ state = "RequestUndo") => state' = "None"
      ]_vars

\* C18's case: a RequestUndo cycle has ended on a miss, with entries of other
\* versions still in the stack.
C18_Witness ==
    /\ pc = "First" /\ state = "RequestUndo" /\ next_state = "None"
    /\ ~posted /\ stack # <<>> /\ counter > 0
    /\ \A i \in 1..Len(stack) : stack[i].no # counter

\* C19 (the cursor never goes below zero): the cursor is never negative, and
\* the RequestUndo finalizer never meets Posted true with the cursor at 0.
C19_CursorNotNegative ==
    /\ counter >= 0
    /\ (pc = "PostUpdate" /\ state = "RequestUndo" /\ posted) => counter >= 1

\* C19's case: the finalizer is about to run with the cursor at 0, after an
\* earlier cycle lowered it.
C19_Witness ==
    /\ pc = "PostUpdate" /\ state = "RequestUndo"
    /\ counter = 0 /\ decrements > 0

\* C20 (only the finalizers change the counters): request evaluation and wait
\* conversion leave the cursor, the reservation counter and the stack alone;
\* the RequestUndo finalizer leaves the reservation counter and the stack
\* alone; the CommitReservations finalizer leaves Posted and the stack alone.
C20_Frame ==
    [][ /\ pc \in {"PreUpdate", "PreUpdateWait"}
           => UNCHANGED <<counter, reserve_counter, stack>>
        /\ (pc = "PostUpdate" /\ state = "RequestUndo")
           => UNCHANGED <<reserve_counter, stack>>
        /\ (pc = "PostUpdate" /\ state = "CommitReservations")
           => UNCHANGED <<posted, stack>>
      ]_vars

\* C20's case: a fold has just run with Posted still true and an entry in the stack.
C20_Witness ==
    /\ pc = "First" /\ state = "CommitReservations" /\ next_state = "None"
    /\ posted /\ stack # <<>>

====
